---------------------------- MODULE Spec2Model ----------------------------
(***************************************************************************)
(* Model of cmd/cli/main.go: the command-line action (argument parsing,    *)
(* crawl, output selection), the crawl of collectRegistrations on one      *)
(* synchronous colly collector, and the six field extractors.              *)
(*                                                                         *)
(* Text is modelled by TLA+ strings; a character is a string of length 1.  *)
(***************************************************************************)
EXTENDS Integers, Sequences, FiniteSets, TLC

(***************************************************************************)
(* String primitives (Go: len, indexing, strings.Index, strings.Split,     *)
(* strings.TrimSpace).                                                     *)
(***************************************************************************)
\* the character at position i (1-based); "" outside the string
Ch(s, i) == IF i \in 1..Len(s) THEN SubSeq(s, i, i) ELSE ""

Min(S) == CHOOSE x \in S : \A y \in S : x <= y

Max(S) == CHOOSE x \in S : \A y \in S : y <= x

\* the characters the pattern class \s and strings.TrimSpace treat as space
IsSpace(c) == c \in {" ", "\t", "\n", "\f", "\r"}

IsDigit(c) == c \in {"0", "1", "2", "3", "4", "5", "6", "7", "8", "9"}

DigitVal(c) == CHOOSE d \in 0..9 : Ch("0123456789", d + 1) = c

\* s[a..b] (1-based, inclusive) holds no line break: what `.*` can match
NoNL(s, a, b) == \A p \in a..b : Ch(s, p) # "\n"

\* sub occurs in s at position p
At(s, p, sub) == p >= 1 /\ p + Len(sub) - 1 <= Len(s) /\ SubSeq(s, p, p + Len(sub) - 1) = sub

\* strings.Index, 1-based; 0 when sep does not occur
Index(s, sep) ==
  LET hits == {p \in 1..Len(s) : At(s, p, sep)}
  IN  IF hits = {} THEN 0 ELSE Min(hits)

RECURSIVE Split(_, _)
\* strings.Split(s, sep) for a non-empty sep: always at least one section
Split(s, sep) ==
  LET p == Index(s, sep)
  IN  IF p = 0 THEN <<s>>
      ELSE <<SubSeq(s, 1, p - 1)>> \o Split(SubSeq(s, p + Len(sep), Len(s)), sep)

\* strings.TrimSpace
TrimSpace(s) ==
  LET keep == {p \in 1..Len(s) : ~IsSpace(Ch(s, p))}
  IN  IF keep = {} THEN "" ELSE SubSeq(s, Min(keep), Max(keep))

(***************************************************************************)
(* time.Parse for the two layouts the program uses.                        *)
(***************************************************************************)
IsLeap(y) == y % 4 = 0 /\ (y % 100 # 0 \/ y % 400 = 0)

daysIn(m, y) ==
  IF m = 2 THEN (IF IsLeap(y) THEN 29 ELSE 28)
  ELSE IF m \in {4, 6, 9, 11} THEN 30 ELSE 31

\* the decimal number written at s[a..b]; all of them digits
Num(s, a, b) ==
  LET RECURSIVE val(_)
      val(p) == IF p < a THEN 0 ELSE 10 * val(p - 1) + DigitVal(Ch(s, p))
  IN  val(b)

AllDigits(s, a, b) == b <= Len(s) /\ \A p \in a..b : IsDigit(Ch(s, p))

NoTime == [ok |-> FALSE]

\* time.Parse("2006-01-02", s): four-digit year, two-digit month and day
ParseArgDate(s) ==
  IF /\ Len(s) = 10
     /\ AllDigits(s, 1, 4) /\ Ch(s, 5) = "-"
     /\ AllDigits(s, 6, 7) /\ Ch(s, 8) = "-"
     /\ AllDigits(s, 9, 10)
     /\ Num(s, 6, 7) \in 1..12
     /\ Num(s, 9, 10) \in 1..daysIn(Num(s, 6, 7), Num(s, 1, 4))
  THEN [ok |-> TRUE, year |-> Num(s, 1, 4), month |-> Num(s, 6, 7),
        day |-> Num(s, 9, 10), hour |-> 0, min |-> 0]
  ELSE NoTime

\* time.Parse("02.01.2006 15:04", s): two-digit day and month, four-digit
\* year, a run of spaces, a one- or two-digit hour, a two-digit minute
ParseAnnounced(s) ==
  LET sp == {p \in 11..Len(s) : \A q \in 11..p : Ch(s, q) = " "}
      h  == IF sp = {} THEN 11 ELSE Max(sp) + 1
      hl == IF AllDigits(s, h, h + 1) THEN 2 ELSE 1
      m  == h + hl + 1
  IN  IF /\ AllDigits(s, 1, 2) /\ Ch(s, 3) = "."
         /\ AllDigits(s, 4, 5) /\ Ch(s, 6) = "."
         /\ AllDigits(s, 7, 10)
         /\ sp # {}
         /\ AllDigits(s, h, h + hl - 1) /\ Ch(s, h + hl) = ":"
         /\ AllDigits(s, m, m + 1) /\ Len(s) = m + 1
         /\ Num(s, 4, 5) \in 1..12
         /\ Num(s, h, h + hl - 1) < 24
         /\ Num(s, m, m + 1) < 60
         /\ Num(s, 1, 2) \in 1..daysIn(Num(s, 4, 5), Num(s, 7, 10))
      THEN [ok |-> TRUE, year |-> Num(s, 7, 10), month |-> Num(s, 4, 5),
            day |-> Num(s, 1, 2), hour |-> Num(s, h, h + hl - 1),
            min |-> Num(s, m, m + 1)]
      ELSE NoTime

(***************************************************************************)
(* The field extractors.  Each returns [val, err, panic]: the value, the   *)
(* error flag of the Go result pair, and whether the call faults with an   *)
(* index out of range.                                                     *)
(***************************************************************************)
Ok(v) == [val |-> v, err |-> FALSE, panic |-> FALSE]

Fail(v) == [val |-> v, err |-> TRUE, panic |-> FALSE]

Panic == [val |-> "", err |-> FALSE, panic |-> TRUE]

\* regexp `.*:\s(.*)\n.*`, leftmost match, greedy: the colon is the last one
\* of the first line that has a colon followed by a space character and,
\* after that, a line break; the group runs to that line break
extractCompanyNumber(text) ==
  LET breaks == {k \in 1..Len(text) : Ch(text, k) = "\n"}
      colons == {j \in 1..Len(text) :
                   /\ Ch(text, j) = ":" /\ IsSpace(Ch(text, j + 1))
                   /\ \E k \in breaks : k >= j + 2}
  IN  IF colons = {} THEN Fail("")
      ELSE LET j == Max({c \in colons : NoNL(text, Min(colons), c - 1)})
               k == Min({b \in breaks : b >= j + 2})
           IN  Ok(SubSeq(text, j + 2, k - 1))

\* The group of the pattern `.*<open>(.*)<close>` (leftmost match, both
\* stars greedy, no line break inside): the text between the last <open> of
\* the first line that has an <open> with a <close> after it, and the last
\* <close> of that line.  [found, group]
GroupBetween(text, open, close) ==
  LET closes == {u \in 1..Len(text) : At(text, u, close)}
      ends(m) == {u \in closes : u >= m + Len(open) /\ NoNL(text, m, u - 1)}
      opens == {m \in 1..Len(text) : At(text, m, open) /\ ends(m) # {}}
  IN  IF opens = {} THEN [found |-> FALSE, group |-> ""]
      ELSE LET m == Max({o \in opens : NoNL(text, Min(opens), o - 1)})
           IN  [found |-> TRUE,
                group |-> SubSeq(text, m + Len(open), Max(ends(m)) - 1)]

\* regexp `.*Bekannt gemacht am:(.*)Uhr`, then time.Parse of the trimmed
\* group with the layout "02.01.2006 15:04"
extractCompanyRegistrationDate(text) ==
  LET matches == GroupBetween(text, "Bekannt gemacht am:", "Uhr")
      t == ParseAnnounced(TrimSpace(matches.group))
  IN  IF matches.found THEN [val |-> t, err |-> ~t.ok, panic |-> FALSE]
      ELSE [val |-> NoTime, err |-> TRUE, panic |-> FALSE]

\* sections[0] always exists; parts[1] faults when the first section holds
\* no ": "
extractCompanyName(text) ==
  LET sections == Split(text, ",")
      parts == Split(sections[1], ": ")
  IN  IF Len(parts) < 2 THEN Panic ELSE Ok(parts[2])

\* sections[2] faults when the line has fewer than three sections
extractCompanyAddress(text) ==
  LET sections == Split(text, ",")
  IN  IF Len(sections) < 3 THEN Panic ELSE Ok(sections[3])

\* sections[1] faults when the line has no comma
extractCity(text) ==
  LET sections == Split(text, ",")
  IN  IF Len(sections) < 2 THEN Panic ELSE Ok(sections[2])

\* regexp `.*(\d{5}).*`: the last run of five digits of the first line that
\* has one
extractPostalCode(text) ==
  LET runs == {p \in 1..Len(text) : AllDigits(text, p, p + 4)}
  IN  IF runs = {} THEN Fail("")
      ELSE LET p == Max({r \in runs : NoNL(text, Min(runs), r - 1)})
           IN  Ok(SubSeq(text, p, p + 4))

(***************************************************************************)
(* The detail handler's record assembly (the body of the "font" callback   *)
(* once the rows are collected).                                           *)
(***************************************************************************)
\* CompanyRegistration{}: every field at its zero value
ZeroRegistration ==
  [RegNo |-> "", Date |-> NoTime, Address |-> "", City |-> "",
   PostalCode |-> "", Name |-> ""]

\* The statements of the callback in program order.  lines is not empty.
\* A fault (lines[5] on fewer than six rows, or inside an extractor) ends it
\* before the append.  [panic, reg]
ParseLines(lines) ==
  LET courtFileNumber == extractCompanyNumber(lines[1])
      companyRegistrationDate == extractCompanyRegistrationDate(lines[1])
  IN  IF Len(lines) < 6 THEN [panic |-> TRUE, reg |-> ZeroRegistration]
      ELSE LET companyName == extractCompanyName(lines[6])
               companyAddress == extractCompanyAddress(lines[6])
               companyCity == extractCity(lines[6])
               postalCode == extractPostalCode(lines[6])
           IN  IF companyName.panic \/ companyAddress.panic \/ companyCity.panic
               THEN [panic |-> TRUE, reg |-> ZeroRegistration]
               ELSE [panic |-> FALSE,
                     reg |-> [RegNo |-> TrimSpace(courtFileNumber.val),
                              Date |-> companyRegistrationDate.val,
                              Name |-> TrimSpace(companyName.val),
                              Address |-> TrimSpace(companyAddress.val),
                              City |-> TrimSpace(companyCity.val),
                              PostalCode |-> TrimSpace(postalCode.val)]]

(***************************************************************************)
(* The link handler's pattern and URL template.                            *)
(***************************************************************************)
PostURL == "https://www.handelsregisterbekanntmachungen.de/?aktion=suche#Ergebnis"

\* regexp `.*'rb_id=(.*)\&.*` on the href: [found, group]
MatchRegID(href) == GroupBetween(href, "'rb_id=", "&")

regURL(regID) ==
  "https://www.handelsregisterbekanntmachungen.de/skripte/hrb.php?rb_id="
    \o regID \o "&land_abk=bw"

(***************************************************************************)
(* The inputs: command-line values and the pages the server holds.  A page *)
(* is what the two selectors see of it: the href of every a[href] that is  *)
(* a child of an li, in document order, and for every font element, in     *)
(* document order, the text of each tr below it.  A font element nested in *)
(* another appears as two entries, the outer one holding the inner one's   *)
(* rows too.                                                               *)
(***************************************************************************)
\* most links on the results page
MaxLinks == 3

\* deepest nesting of Visit calls the model follows
MaxDepth == 5

StartDates == {"2024-02-01", "2024-2-1"}

EndDates == {"2024-02-29", "2023-02-29"}

Outputs == {"csv", "jsonl", "xml"}

Href1 == "javascript:NeuFenster('rb_id=1&land_abk=bw')"

Href2 == "javascript:NeuFenster('rb_id=2&land_abk=bw')"

Href3 == "javascript:NeuFenster('rb_id=3&land_abk=bw')"

\* an href that names an rb_id without the quote the pattern asks for
HrefOther == "skripte/hrb.php?rb_id=4&land_abk=bw"

ResultHrefs == {Href1, Href2, HrefOther}

DetailHrefs == {Href1, Href3}

Row0Good == "Aktenzeichen: HRB 1\nBekannt gemacht am: 01.02.2024 14:30 Uhr"

\* no colon, no line break, no marker
Row0Bare == "HRB 3"

\* a 31st of February
Row0BadDate == "Aktenzeichen: HRB 2\nBekannt gemacht am: 31.02.2024 14:30 Uhr"

Row5Good == "HRB 1: Acme GmbH, Berlin, Hauptstr. 1, 10115 Berlin."

Row5NoPostal == "HRB 2: Bolt AG, Ulm, Ring 2"

\* no ": " in the first section
Row5NoColon == "Acme GmbH, Berlin, Hauptstr. 1, 10115 Berlin."

\* two sections only
Row5Short == "HRB 1: Acme GmbH, 10115 Berlin"

Rows(first, sixth) == <<first, "", "", "", "", sixth>>

FontEmpty == <<>>

FontThree == <<Row0Good, "", "">>

FontGood == Rows(Row0Good, Row5Good)

FontSoft == Rows(Row0BadDate, Row5NoPostal)

FontBare == Rows(Row0Bare, Row5Good)

FontNoColon == Rows(Row0Good, Row5NoColon)

FontShort == Rows(Row0Good, Row5Short)

Fonts == {FontEmpty, FontThree, FontGood, FontSoft, FontBare, FontNoColon, FontShort}

SeqsUpTo(S, n) == UNION {[1..k -> S] : k \in 0..n}

\* the results page: up to MaxLinks links, and no font element or one
ResultPages == [links : SeqsUpTo(ResultHrefs, MaxLinks), fonts : {<<>>, <<FontGood>>}]

\* a detail page: no link and no, one or two font elements (two: one
\* beside or inside the other), or one link and the announcement
DetailPages ==
  [links : {<<>>}, fonts : {<<>>, <<FontGood, FontGood>>} \cup {<<f>> : f \in Fonts}]
    \cup [links : {<<h>> : h \in DetailHrefs}, fonts : {<<FontGood>>}]

\* the handlers' pure parts, tabulated over the texts the pages hold
Parsed == [lines \in Fonts \ {FontEmpty} |-> ParseLines(lines)]

RegID == [href \in ResultHrefs \cup DetailHrefs |-> MatchRegID(href)]

\* time.Parse(layout, strings.TrimSpace(flag)) of the date flags
ArgDate == [flag \in StartDates \cup EndDates |-> ParseArgDate(TrimSpace(flag))]

(***************************************************************************)
(* State.                                                                  *)
(***************************************************************************)
VARIABLES
  args,           \* the flag values: [start_date, end_date, output]
  pc,             \* "main", "crawl", "callbacks", "output", "done", "panicked"
  registrations,  \* the slice collectRegistrations appends to and returns
  visited,        \* the collector's store of requested GET URLs
  stack,          \* the nested fetches in progress, innermost last:
                  \* [url, link, font] = the page and the next link and font
                  \* element its callbacks get
  exit,           \* what the Action returns: "nil" or the error message
  stdout,         \* the serialisation printed: "", "csv" or "jsonl"
  web,            \* history: the pages served so far, by URL
  fetched,        \* history: the requests sent, in order: [method, url, ok]
  origin          \* history: origin[i] is the URL of the page whose font
                  \* element gave registrations[i]

vars == <<args, pc, registrations, visited, stack, exit, stdout, web, fetched, origin>>

Top == stack[Len(stack)]

TopPage == web[Top.url]

\* the top frame moved on by one link / one font element
NextLink(stk) == [stk EXCEPT ![Len(stk)].link = @ + 1]

NextFont(stk) == [stk EXCEPT ![Len(stk)].font = @ + 1]

Frame(u) == [url |-> u, link |-> 1, font |-> 1]

Init ==
  /\ args \in [start_date : StartDates, end_date : EndDates, output : Outputs]
  /\ pc = "main"
  /\ registrations = <<>>
  /\ visited = {}
  /\ stack = <<>>
  /\ exit = "nil"
  /\ stdout = ""
  /\ web = <<>>
  /\ fetched = <<>>
  /\ origin = <<>>

(***************************************************************************)
(* main's Action up to the call of collectRegistrations.                   *)
(***************************************************************************)
ParseArgs ==
  /\ pc = "main"
  /\ IF ~ArgDate[args.start_date].ok
     THEN pc' = "done" /\ exit' = "unable to parse start date parameter"
     ELSE IF ~ArgDate[args.end_date].ok
     THEN pc' = "done" /\ exit' = "unable to parse end date parameter"
     ELSE pc' = "crawl" /\ exit' = exit
  /\ UNCHANGED <<args, registrations, visited, stack, stdout, web, fetched, origin>>

(***************************************************************************)
(* collectRegistrations.                                                   *)
(***************************************************************************)
\* the form fields that depend on the dates
PostData ==
  LET startDate == ArgDate[args.start_date]
      endDate == ArgDate[args.end_date]
  IN  [vt |-> startDate.day, vm |-> startDate.month, vj |-> startDate.year,
       bt |-> endDate.day, bm |-> endDate.month, bj |-> endDate.year]

\* c.Post: the search request.  POST requests are not looked up in the
\* store.  Its error is dropped; on success the callbacks run on the page.
Post ==
  /\ pc = "crawl"
  /\ \E ok \in BOOLEAN :
       /\ fetched' = Append(fetched, [method |-> "POST", url |-> PostURL, ok |-> ok,
                                      data |-> PostData])
       /\ IF ok
          THEN /\ \E page \in ResultPages : web' = (PostURL :> page)
               /\ stack' = <<Frame(PostURL)>>
               /\ pc' = "callbacks"
          ELSE /\ web' = web
               /\ stack' = stack
               /\ pc' = "output"
  /\ UNCHANGED <<args, registrations, visited, exit, stdout, origin>>

\* a collector that allows revisits: no GET is refused
AlreadyVisitedNever(u) == FALSE

\* requestCheck of a collector built with no options: a GET of a URL already
\* in the store is refused
AlreadyVisited(u) == u \in visited

\* a callback that gives up on the page's remaining links after an error
AfterVisitErrorStops(stk) ==
  [stk EXCEPT ![Len(stk)].link = Len(web[stk[Len(stk)].url].links) + 1]

\* c.Visit returned an error (refused, or the fetch failed): the callback
\* drops it and the page's next link is handled
AfterVisitError(stk) == NextLink(stk)

\* one call of the "li>a[href]" callback, with the Visit it makes
LinkCallback ==
  /\ pc = "callbacks"
  /\ Top.link <= Len(TopPage.links)
  /\ LET matches == RegID[TopPage.links[Top.link]]
         u == regURL(matches.group)
     IN  IF ~matches.found
         THEN /\ stack' = NextLink(stack)
              /\ UNCHANGED <<visited, web, fetched>>
         ELSE IF AlreadyVisited(u)
         THEN /\ stack' = AfterVisitError(stack)
              /\ UNCHANGED <<visited, web, fetched>>
         ELSE /\ visited' = visited \cup {u}
              /\ \E ok \in BOOLEAN :
                   /\ fetched' = Append(fetched, [method |-> "GET", url |-> u, ok |-> ok])
                   /\ IF ok
                      THEN /\ Len(stack) < MaxDepth
                           /\ \E page \in (IF u \in DOMAIN web THEN {web[u]} ELSE DetailPages) :
                                web' = (u :> page) @@ web
                           /\ stack' = Append(NextLink(stack), Frame(u))
                      ELSE /\ web' = web
                           /\ stack' = AfterVisitError(stack)
  /\ UNCHANGED <<args, pc, registrations, exit, stdout, origin>>

\* one call of the "font" callback: on a page whose links are all handled
FontCallback ==
  /\ pc = "callbacks"
  /\ Top.link > Len(TopPage.links)
  /\ Top.font <= Len(TopPage.fonts)
  /\ LET lines == TopPage.fonts[Top.font]
     IN  IF Len(lines) = 0
         THEN /\ stack' = NextFont(stack)
              /\ UNCHANGED <<pc, registrations, origin>>
         ELSE IF Parsed[lines].panic
         THEN /\ pc' = "panicked"
              /\ UNCHANGED <<stack, registrations, origin>>
         ELSE /\ registrations' = Append(registrations, Parsed[lines].reg)
              /\ origin' = Append(origin, Top.url)
              /\ stack' = NextFont(stack)
              /\ pc' = pc
  /\ UNCHANGED <<args, visited, exit, stdout, web, fetched>>

\* the callbacks of a page are done: its fetch returns to the caller, the
\* outermost one to collectRegistrations, which returns the slice
FetchReturn ==
  /\ pc = "callbacks"
  /\ Top.link > Len(TopPage.links)
  /\ Top.font > Len(TopPage.fonts)
  /\ stack' = SubSeq(stack, 1, Len(stack) - 1)
  /\ pc' = IF Len(stack) = 1 THEN "output" ELSE "callbacks"
  /\ UNCHANGED <<args, registrations, visited, exit, stdout, web, fetched, origin>>

(***************************************************************************)
(* main's Action after collectRegistrations returned.                      *)
(***************************************************************************)
Output ==
  /\ pc = "output"
  /\ pc' = "done"
  /\ IF args.output = "jsonl" THEN stdout' = "jsonl" /\ exit' = "nil"
     ELSE IF args.output = "csv" THEN stdout' = "csv" /\ exit' = "nil"
     ELSE stdout' = stdout /\ exit' = "output not supported"
  /\ UNCHANGED <<args, registrations, visited, stack, web, fetched, origin>>

Next == ParseArgs \/ Post \/ LinkCallback \/ FontCallback \/ FetchReturn \/ Output

Spec == Init /\ [][Next]_vars

\* the program is one sequential process: it takes its next step; every
\* fetch ends (the collector's HTTP client has a timeout)
LiveSpec == Spec /\ WF_vars(Next)

(***************************************************************************)
(* Vocabulary of the properties.                                           *)
(***************************************************************************)
\* collectRegistrations was called and has returned
Returned == pc \in {"output", "done"} /\ fetched # <<>>

PostOk == fetched # <<>> /\ fetched[1].ok

ResultLinks == IF PostURL \in DOMAIN web THEN web[PostURL].links ELSE <<>>

\* the positions of the results page's links that hold an identifier
IdLinks == {k \in 1..Len(ResultLinks) : RegID[ResultLinks[k]].found}

LinkURL(href) == regURL(RegID[href].group)

ResultURLs == {LinkURL(ResultLinks[k]) : k \in IdLinks}

Gets(u) == {i \in 1..Len(fetched) : fetched[i].method = "GET" /\ fetched[i].url = u}

GetURLs == {fetched[i].url : i \in {j \in 1..Len(fetched) : fetched[j].method = "GET"}}

RecordsFrom(u) == Cardinality({i \in 1..Len(origin) : origin[i] = u})

\* the font elements of a page that hold at least one row
FilledFonts(page) == Cardinality({k \in 1..Len(page.fonts) : Len(page.fonts[k]) > 0})

\* the rows the "font" callback in progress has collected
CurrentLines == TopPage.fonts[Top.font]

InFontCallback ==
  /\ stack # <<>>
  /\ Top.link > Len(TopPage.links)
  /\ Top.font <= Len(TopPage.fonts)

(***************************************************************************)
(* Properties.                                                             *)
(***************************************************************************)

\* C1: a font element with at least one and fewer than six rows is handled
\* without a fault: the run never ends in the index fault of lines[5].
C1_ShortPageNoFault ==
  ~(pc = "panicked" /\ InFontCallback /\ Len(CurrentLines) \in 1..5)

\* C2: a font element with six or more rows is handled without a fault,
\* whichever extractors fail on its text: the run never ends in a fault while
\* handling such an element.
C2_ExtractorFailureNoFault ==
  ~(pc = "panicked" /\ InFontCallback /\ Len(CurrentLines) >= 6)

FirstPos(u) == Min({k \in IdLinks : LinkURL(ResultLinks[k]) = u})

\* C3: in the returned sequence, the records of two pages linked from the
\* results page stand in the order in which their links were first found
\* there.
C3_DiscoveryOrder ==
  Returned =>
    \A i, j \in 1..Len(origin) :
      (i < j /\ origin[i] \in ResultURLs /\ origin[j] \in ResultURLs
         /\ origin[i] # origin[j])
      => FirstPos(origin[i]) < FirstPos(origin[j])

ValidArgs ==
  /\ ArgDate[args.start_date].ok
  /\ ArgDate[args.end_date].ok
  /\ args.output \in {"csv", "jsonl"}

\* C4: no request is sent in a run whose start date, end date or output
\* selector is invalid.
C4_ValidateBeforeNetwork == fetched # <<>> => ValidArgs

\* C5: a run whose search submission failed ends with an error, so the
\* caller can tell it from a search without results.
C5_PostFailureSurfaced ==
  (pc = "done" /\ fetched # <<>> /\ ~fetched[1].ok) => exit # "nil"

\* C6: a failed fetch of a detail page does not stop the crawl.  The failed
\* page gives no record; every identifier link of the results page up to the
\* one being handled has been requested, and all of them once the crawl has
\* returned; and when the crawl has returned, every page fetched with
\* success has all its records in the sequence.
C6_FetchFailureTolerated ==
  /\ \A i \in 1..Len(fetched) :
       (fetched[i].method = "GET" /\ ~fetched[i].ok) => RecordsFrom(fetched[i].url) = 0
  /\ (pc \in {"callbacks", "panicked"} /\ stack # <<>>) =>
       \A k \in IdLinks : k < stack[1].link => LinkURL(ResultLinks[k]) \in GetURLs
  /\ Returned =>
       /\ \A k \in IdLinks : LinkURL(ResultLinks[k]) \in GetURLs
       /\ \A i \in 1..Len(fetched) :
            (fetched[i].method = "GET" /\ fetched[i].ok) =>
              RecordsFrom(fetched[i].url) = FilledFonts(web[fetched[i].url])

\* C6 witness: the first detail fetch failed, a later one succeeded, its
\* record is in the sequence and the run has ended normally.
C6_Witness ==
  /\ pc = "done" /\ Len(fetched) >= 3
  /\ ~fetched[2].ok /\ fetched[3].ok
  /\ fetched[2].url # fetched[3].url
  /\ {fetched[2].url, fetched[3].url} \subseteq ResultURLs
  /\ RecordsFrom(fetched[3].url) = 1

C8_ExactlyTwoFetches ==
  (pc = "done" /\ PostOk /\ Cardinality(IdLinks) = 2 /\ Cardinality(ResultURLs) = 2) =>
    /\ Len(fetched) = 3
    /\ fetched[2].url = LinkURL(ResultLinks[Min(IdLinks)])
    /\ fetched[3].url = LinkURL(ResultLinks[Max(IdLinks)])

\* C9: a fetched detail page gives at most one record, and there are never
\* more records than detail pages fetched.
C9_OneRecordPerPage ==
  /\ \A u \in DOMAIN web \ {PostURL} : RecordsFrom(u) <= 1
  /\ Len(registrations) <= Cardinality({i \in 1..Len(fetched) : fetched[i].method = "GET"})

\* the identifier links of a page whose callbacks are over have all been
\* requested: the link callback ran on it
LinksFollowed ==
  \A u \in DOMAIN web :
    (\A n \in 1..Len(stack) : stack[n].url # u) =>
      \A k \in 1..Len(web[u].links) :
        RegID[web[u].links[k]].found => LinkURL(web[u].links[k]) \in visited

\* C10: the link callback runs on every fetched page, detail pages
\* included, and still the crawl ends: the nesting of fetches stays below
\* the depth the model follows, and a call of collectRegistrations leads to
\* its return or to the end of the process by a fault.
C10_CrawlEnds ==
  /\ [](Len(stack) < MaxDepth)
  /\ []LinksFollowed
  /\ (pc = "crawl") ~> (pc \in {"output", "panicked"})

\* C10 witness: two detail pages that link to each other were both fetched
\* and handled, and collectRegistrations has returned.
C10_Witness ==
  /\ pc = "output"
  /\ {LinkURL(Href1), LinkURL(Href3)} \subseteq DOMAIN web
  /\ web[LinkURL(Href1)].links = <<Href3>>
  /\ web[LinkURL(Href3)].links = <<Href1>>
=============================================================================
